---- MODULE Spec2Model ----
(***************************************************************************)
(* The protected dialer of src/protect.go: protectedDialer.Dial resolves a *)
(* destination to candidate IPs and runs protectedDialer.dial on each in   *)
(* turn; dial creates a raw socket, protects it, applies the socket        *)
(* options, connects it and wraps it as a net.Conn.                        *)
(*                                                                         *)
(* The operating system's descriptor table is state shared by every Dial   *)
(* invocation; everything else is local to one invocation and is indexed   *)
(* by the invocation d.                                                    *)
(***************************************************************************)
EXTENDS Integers, Sequences, FiniteSets, TLC

\* ---------------------------------------------------------------- bounds
MaxAddrs == 2      \* longest address list the resolver returns
MaxFd == 3         \* descriptor numbers are 0..MaxFd
NumDialers == 2    \* Dial invocations that exist (Spec starts the first)

\* ------------------------------------------------------ program constants
IPv4len == 4       \* net.IPv4len
IPv6len == 16      \* length of the Addr of unix.SockaddrInet6

Dialers == 1..NumDialers
Fds == 0..MaxFd
NoFd == 0 - 1

\* ----------------------------------------------------------- data values
\* v2rayNet.Network: Unknown, the deprecated RawTCP (any value getFd's
\* switch does not list), TCP, UDP, UNIX.
Networks == {"Unknown", "RawTCP", "TCP", "UDP", "UNIX"}

\* net.IP: a byte slice of 4 or 16 bytes; a 16-byte slice may hold an
\* IPv4-mapped address.
NoIP == [len |-> 0, mapped |-> FALSE]
IP4 == [len |-> IPv4len, mapped |-> FALSE]
IP6 == [len |-> IPv6len, mapped |-> FALSE]
IP4in6 == [len |-> IPv6len, mapped |-> TRUE]
IPs == {IP4, IP6, IP4in6}

\* v2rayNet.Address: nil, an IP address or a domain name.
NilAddr == [family |-> "nil", ip |-> NoIP]
DomainAddr == [family |-> "domain", ip |-> NoIP]
IPv4Addr == [family |-> "ipv4", ip |-> IP4]
IPv6Addr == [family |-> "ipv6", ip |-> IP6]
Addresses == {NilAddr, DomainAddr, IPv4Addr, IPv6Addr}

\* v2rayNet.IPAddress(ip): 4 bytes, or 16 bytes holding an IPv4-mapped
\* address, give an IPv4 address; other 16 bytes an IPv6 address.
IPAddress(ip) ==
    IF ip.len = IPv4len THEN IPv4Addr
    ELSE IF ip.mapped THEN IPv4Addr
    ELSE IPv6Addr

\* Address.IP()
AddressIP(a) == a.ip

\* a family test that takes every address for a domain name
IsDomainAlways(a) == a.family # "nil"

\* Address.Family().IsDomain()
IsDomain(a) == a.family = "domain"

\* error values; `at` is the candidate (1-based) whose attempt produced it,
\* 0 for an error produced outside any attempt
NoErr == [kind |-> "nil", at |-> 0]
Err(k, n) == [kind |-> k, at |-> n]

\* net.Conn values; fd is the descriptor the wrapper owns, peer the
\* candidate whose address the wrapper is connected to
NilConn == [kind |-> "nil", fd |-> NoFd, peer |-> 0]

\* an entry of the descriptor table
FreeFd == [open |-> FALSE, creator |-> 0, cand |-> 0, af |-> "none",
           type |-> "none", proto |-> "none", protected |-> "no",
           sockopt |-> FALSE, connected |-> FALSE, connAf |-> "none",
           owner |-> "none"]

HasFree(t) == \E f \in Fds : ~t[f].open
LowestFree(t) == CHOOSE f \in Fds : ~t[f].open /\ \A g \in Fds : g < f => t[g].open

\* the resolver's possible answers
AddrLists == UNION {[1..n -> IPs] : n \in 0..MaxAddrs}

VARIABLES
    pc,           \* pc[d]: where invocation d is
    arg,          \* arg[d]: the destination the caller passed to Dial
    destination,  \* destination[d]: Dial's destination (its Address is reassigned)
    sockopt,      \* sockopt[d]: TRUE iff sockopt != nil
    ctxDone,      \* ctxDone[d]: the caller's context was cancelled
    ips,          \* Dial's ips
    i,            \* Dial's loop index (0-based)
    conn, err,    \* Dial's named results
    returned,     \* returned[d]: what each call of dial returned, in order
    fd, ipv6,     \* dial's fd and ipv6
    file,         \* dial's file (the descriptor it holds, NoFd for none)
    dconn, derr,  \* dial's named results conn, err
    timedOut,     \* timedOut[d]: the deadline of dial's ctx (line 70) has passed
    fdTable,      \* the process's descriptor table
    log           \* log[d]: the calls invocation d has made, in order

vars == <<pc, arg, destination, sockopt, ctxDone, ips, i, conn, err, returned,
          fd, ipv6, file, dconn, derr, timedOut, fdTable, log>>

dialVars == <<ips, i, conn, err, returned>>
attemptVars == <<fd, ipv6, file, dconn, derr, timedOut>>
inputVars == <<arg, sockopt>>

\* a logged call: the operation, the descriptor it was on (or returned), the
\* candidate (1-based) it was made for and the error it returned
Ev(o, f, c, e) == [op |-> o, fd |-> f, cand |-> c, err |-> e]
Logged(d, e) == log' = [log EXCEPT ![d] = Append(@, e)]
Logged2(d, e1, e2) == log' = [log EXCEPT ![d] = Append(Append(@, e1), e2)]

\* the candidate (1-based) the loop is at
Cand(d) == i[d] + 1

InitDial(started) ==
    /\ pc = [d \in Dialers |-> IF d \in started THEN "Dial" ELSE "idle"]
    /\ arg \in [Dialers -> [Network : Networks, Address : Addresses]]
    /\ \A d \in Dialers \ started :
           arg[d] = [Network |-> "Unknown", Address |-> NilAddr]
    /\ destination = arg
    /\ sockopt \in [Dialers -> BOOLEAN]
    /\ \A d \in Dialers \ started : sockopt[d] = FALSE
    /\ ctxDone = [d \in Dialers |-> FALSE]
    /\ ips = [d \in Dialers |-> <<>>]
    /\ i = [d \in Dialers |-> 0]
    /\ conn = [d \in Dialers |-> NilConn]
    /\ err = [d \in Dialers |-> NoErr]
    /\ returned = [d \in Dialers |-> <<>>]
    /\ fd = [d \in Dialers |-> NoFd]
    /\ ipv6 = [d \in Dialers |-> FALSE]
    /\ file = [d \in Dialers |-> NoFd]
    /\ dconn = [d \in Dialers |-> NilConn]
    /\ derr = [d \in Dialers |-> NoErr]
    /\ timedOut = [d \in Dialers |-> FALSE]
    /\ fdTable = [f \in Fds |-> FreeFd]
    /\ log = [d \in Dialers |-> <<>>]

Init == InitDial({1})

\* ------------------------------------------------------------------ Dial

\* the destination check without its test of the address
InvalidDestinationNetworkOnly(dst) == dst.Network = "Unknown"

\* Dial, lines 36-38: the destination is checked before anything else
InvalidDestination(dst) == dst.Network = "Unknown" \/ dst.Address = NilAddr

\* Dial, lines 36-41 and 49-51: panic on an invalid destination; a domain
\* goes to the resolver; a literal IP is the only candidate.
Enter(d) ==
    /\ pc[d] = "Dial"
    /\ IF InvalidDestination(destination[d])
       THEN /\ pc' = [pc EXCEPT ![d] = "panic"]
            /\ UNCHANGED ips
       ELSE IF IsDomain(destination[d].Address)
       THEN /\ pc' = [pc EXCEPT ![d] = "resolver"]
            /\ UNCHANGED ips
       ELSE /\ ips' = [ips EXCEPT ![d] = <<AddressIP(destination[d].Address)>>]
            /\ pc' = [pc EXCEPT ![d] = "loop"]
    /\ UNCHANGED <<destination, ctxDone, i, conn, err, returned, attemptVars,
                   inputVars, fdTable, log>>

\* what dialer.resolver(ctx, domain) may return: an error of its own, the
\* context's error once the context is cancelled, or a list of addresses
ResolverResults(d) ==
    {[ips |-> <<>>, err |-> Err("resolver", 0)]}
    \cup (IF ctxDone[d] THEN {[ips |-> <<>>, err |-> Err("canceled", 0)]} ELSE {})
    \cup {[ips |-> l, err |-> NoErr] : l \in AddrLists}

\* the resolver's answer never taken for empty
EmptyResponseNever(r) == FALSE

\* Dial, line 43
EmptyResponse(r) == r.err = NoErr /\ Len(r.ips) = 0

\* the empty-response test without err == nil: it replaces the resolver's
\* error, which comes with no addresses
ResolveErrorOverwritten(r) ==
    IF Len(r.ips) = 0 THEN Err("ErrEmptyResponse", 0) ELSE r.err

\* Dial, lines 43-45: the error after the resolver's answer is looked at
ResolveError(r) == IF EmptyResponse(r) THEN Err("ErrEmptyResponse", 0) ELSE r.err

\* Dial, lines 42-48: the resolver returns; an error or an empty answer ends
\* the Dial
Resolve(d) ==
    /\ pc[d] = "resolver"
    /\ \E r \in ResolverResults(d) :
         LET e == ResolveError(r)
         IN /\ Logged(d, Ev("resolve", NoFd, 0, r.err))
            /\ ips' = [ips EXCEPT ![d] = r.ips]
            /\ err' = [err EXCEPT ![d] = e]
            /\ IF e # NoErr
               THEN /\ conn' = [conn EXCEPT ![d] = NilConn]
                    /\ pc' = [pc EXCEPT ![d] = "done"]
               ELSE /\ pc' = [pc EXCEPT ![d] = "loop"]
                    /\ UNCHANGED conn
    /\ UNCHANGED <<destination, ctxDone, i, returned, attemptVars, inputVars,
                   fdTable>>

\* the loop without its break: every candidate is dialled
BreakLoopNever(d) == FALSE

\* the loop breaking after the first candidate whatever its attempt returned
BreakLoopAlways(d) == i[d] > 0

\* the loop also stopping once the caller's context is cancelled
BreakLoopOnCancel(d) == (i[d] > 0 /\ err[d] = NoErr) \/ ctxDone[d]

\* the loop with its test inverted: it stops after a failed attempt
BreakLoopOnError(d) == i[d] > 0 /\ err[d] # NoErr

\* Dial, lines 54-56: after the first candidate the loop stops once the
\* previous attempt returned no error
BreakLoop(d) == i[d] > 0 /\ err[d] = NoErr

\* Dial, lines 53-62 and 66: the loop head; returns conn, err when the
\* candidates are exhausted or the loop breaks, else sets the destination's
\* address to the candidate and calls dial
Loop(d) ==
    /\ pc[d] = "loop"
    /\ IF i[d] >= Len(ips[d]) \/ BreakLoop(d)
       THEN /\ pc' = [pc EXCEPT ![d] = "done"]
            /\ UNCHANGED destination
       ELSE /\ destination' = [destination EXCEPT
                                 ![d].Address = IPAddress(ips[d][Cand(d)])]
            /\ pc' = [pc EXCEPT ![d] = "getFd"]
    /\ UNCHANGED <<ctxDone, dialVars, attemptVars, inputVars, fdTable, log>>

\* the caller cancels the context it passed to Dial
Cancel(d) ==
    /\ pc[d] \notin {"idle", "done", "panic"}
    /\ ~ctxDone[d]
    /\ ctxDone' = [ctxDone EXCEPT ![d] = TRUE]
    /\ UNCHANGED <<pc, destination, dialVars, attemptVars, inputVars, fdTable, log>>

\* ------------------------------------------------------------------ dial

\* dial, lines 70-71: the deadline of context.WithTimeout(Background, 10s)
\* passes while dial runs; the deferred cancel() ends the context when dial
\* returns. Nothing but ApplySockopt is handed this context.
Timeout(d) ==
    /\ pc[d] \in {"protect", "sockopt", "connect", "wrap", "finish"}
    /\ ~timedOut[d]
    /\ timedOut' = [timedOut EXCEPT ![d] = TRUE]
    /\ UNCHANGED <<pc, destination, ctxDone, dialVars, fd, ipv6, file, dconn, derr,
                   inputVars, fdTable, log>>

\* dial returns (c, e) to Dial, line 63: conn, err = dialer.dial(...); the
\* loop moves to the next index
DialReturns(d, c, e) ==
    /\ conn' = [conn EXCEPT ![d] = c]
    /\ err' = [err EXCEPT ![d] = e]
    /\ i' = [i EXCEPT ![d] = @ + 1]
    /\ returned' = [returned EXCEPT ![d] = Append(@, [conn |-> c, err |-> e])]
    /\ pc' = [pc EXCEPT ![d] = "loop"]
    /\ fd' = [fd EXCEPT ![d] = NoFd]
    /\ ipv6' = [ipv6 EXCEPT ![d] = FALSE]
    /\ file' = [file EXCEPT ![d] = NoFd]
    /\ dconn' = [dconn EXCEPT ![d] = NilConn]
    /\ derr' = [derr EXCEPT ![d] = NoErr]
    /\ timedOut' = [timedOut EXCEPT ![d] = FALSE]
    /\ UNCHANGED ips

\* unix.Close(fd), file.Close()
CloseFd(t, f) == [t EXCEPT ![f] = FreeFd]

\* getFd with the test of ipv6 inverted
getFdInverted(network, v6) ==
    LET af == IF v6 THEN "AF_INET" ELSE "AF_INET6"
    IN CASE network = "TCP" ->
              [known |-> TRUE, af |-> af, type |-> "SOCK_STREAM", proto |-> "IPPROTO_TCP"]
         [] network = "UDP" ->
              [known |-> TRUE, af |-> af, type |-> "SOCK_DGRAM", proto |-> "IPPROTO_UDP"]
         [] network = "UNIX" ->
              [known |-> TRUE, af |-> af, type |-> "SOCK_STREAM", proto |-> "0"]
         [] OTHER ->
              [known |-> FALSE, af |-> af, type |-> "none", proto |-> "none"]

\* getFd, lines 139-157: the arguments of unix.Socket, or no call at all
\* for a network the switch does not list
getFd(network, v6) ==
    LET af == IF ~v6 THEN "AF_INET" ELSE "AF_INET6"
    IN CASE network = "TCP" ->
              [known |-> TRUE, af |-> af, type |-> "SOCK_STREAM", proto |-> "IPPROTO_TCP"]
         [] network = "UDP" ->
              [known |-> TRUE, af |-> af, type |-> "SOCK_DGRAM", proto |-> "IPPROTO_UDP"]
         [] network = "UNIX" ->
              [known |-> TRUE, af |-> af, type |-> "SOCK_STREAM", proto |-> "0"]
         [] OTHER ->
              [known |-> FALSE, af |-> af, type |-> "none", proto |-> "none"]

\* dial, line 73
IsIPv6(ip) == ip.len # IPv4len

\* GetFd keeping the descriptor in a field of the dialer that every
\* invocation reads, not in a local of dial
GetFdShared(d) ==
    /\ pc[d] = "getFd"
    /\ LET v6 == IsIPv6(AddressIP(destination[d].Address))
           s == getFd(destination[d].Network, v6)
       IN IF ~s.known
          THEN /\ DialReturns(d, NilConn, Err("unknow network", Cand(d)))
               /\ UNCHANGED <<fdTable, log>>
          ELSE \E ok \in BOOLEAN :
                 /\ ok => HasFree(fdTable)
                 /\ IF ok
                    THEN LET f == LowestFree(fdTable)
                         IN /\ fdTable' = [fdTable EXCEPT ![f] =
                                  [FreeFd EXCEPT !.open = TRUE, !.creator = d,
                                     !.cand = Cand(d), !.af = s.af, !.type = s.type,
                                     !.proto = s.proto, !.owner = "dial"]]
                            /\ fd' = [e \in Dialers |-> f]
                            /\ ipv6' = [ipv6 EXCEPT ![d] = v6]
                            /\ pc' = [pc EXCEPT ![d] = "protect"]
                            /\ Logged(d, Ev("socket", f, Cand(d), NoErr))
                            /\ UNCHANGED <<dialVars, file, dconn, derr, timedOut>>
                    ELSE /\ DialReturns(d, NilConn, Err("socket", Cand(d)))
                         /\ Logged(d, Ev("socket", NoFd, Cand(d), Err("socket", Cand(d))))
                         /\ UNCHANGED fdTable
    /\ UNCHANGED <<destination, ctxDone, inputVars>>

\* dial, lines 72-77: create the socket; a failure returns to Dial
GetFd(d) ==
    /\ pc[d] = "getFd"
    /\ LET v6 == IsIPv6(AddressIP(destination[d].Address))
           s == getFd(destination[d].Network, v6)
       IN IF ~s.known
          THEN /\ DialReturns(d, NilConn, Err("unknow network", Cand(d)))
               /\ UNCHANGED <<fdTable, log>>
          ELSE \E ok \in BOOLEAN :
                 /\ ok => HasFree(fdTable)
                 /\ IF ok
                    THEN LET f == LowestFree(fdTable)
                         IN /\ fdTable' = [fdTable EXCEPT ![f] =
                                  [FreeFd EXCEPT !.open = TRUE, !.creator = d,
                                     !.cand = Cand(d), !.af = s.af, !.type = s.type,
                                     !.proto = s.proto, !.owner = "dial"]]
                            /\ fd' = [fd EXCEPT ![d] = f]
                            /\ ipv6' = [ipv6 EXCEPT ![d] = v6]
                            /\ pc' = [pc EXCEPT ![d] = "protect"]
                            /\ Logged(d, Ev("socket", f, Cand(d), NoErr))
                            /\ UNCHANGED <<dialVars, file, dconn, derr, timedOut>>
                    ELSE /\ DialReturns(d, NilConn, Err("socket", Cand(d)))
                         /\ Logged(d, Ev("socket", NoFd, Cand(d), Err("socket", Cand(d))))
                         /\ UNCHANGED fdTable
    /\ UNCHANGED <<destination, ctxDone, inputVars>>

\* what Protector.Protect(fd) may return (noopProtector: always true)
ProtectResults == BOOLEAN

\* Protect with its result dropped: the attempt goes on whatever it returns
ProtectIgnored(d) ==
    /\ pc[d] = "protect"
    /\ \E ok \in ProtectResults :
         /\ fdTable' = [fdTable EXCEPT ![fd[d]].protected = IF ok THEN "ok" ELSE "failed"]
         /\ Logged(d, Ev("protect", fd[d], Cand(d),
                         IF ok THEN NoErr ELSE Err("protect failed", Cand(d))))
         /\ pc' = [pc EXCEPT ![d] = "sockopt"]
         /\ UNCHANGED <<dialVars, attemptVars>>
    /\ UNCHANGED <<destination, ctxDone, inputVars>>

\* Protect returning on false without closing the descriptor
ProtectNoClose(d) ==
    /\ pc[d] = "protect"
    /\ \E ok \in ProtectResults :
         IF ~ok
         THEN /\ fdTable' = [fdTable EXCEPT ![fd[d]].protected = "failed"]
              /\ Logged(d, Ev("protect", fd[d], Cand(d), Err("protect failed", Cand(d))))
              /\ DialReturns(d, NilConn, Err("protect failed", Cand(d)))
         ELSE /\ fdTable' = [fdTable EXCEPT ![fd[d]].protected = "ok"]
              /\ Logged(d, Ev("protect", fd[d], Cand(d), NoErr))
              /\ pc' = [pc EXCEPT ![d] = "sockopt"]
              /\ UNCHANGED <<dialVars, attemptVars>>
    /\ UNCHANGED <<destination, ctxDone, inputVars>>

\* dial, lines 79-82: protect the descriptor; false closes it and returns
Protect(d) ==
    /\ pc[d] = "protect"
    /\ \E ok \in ProtectResults :
         IF ~ok
         THEN /\ fdTable' = CloseFd(fdTable, fd[d])
              /\ Logged2(d, Ev("protect", fd[d], Cand(d), Err("protect failed", Cand(d))),
                            Ev("close", fd[d], Cand(d), NoErr))
              /\ DialReturns(d, NilConn, Err("protect failed", Cand(d)))
         ELSE /\ fdTable' = [fdTable EXCEPT ![fd[d]].protected = "ok"]
              /\ Logged(d, Ev("protect", fd[d], Cand(d), NoErr))
              /\ pc' = [pc EXCEPT ![d] = "sockopt"]
              /\ UNCHANGED <<dialVars, attemptVars>>
    /\ UNCHANGED <<destination, ctxDone, inputVars>>

\* dial, lines 84-86: internet.ApplySockopt, only if sockopt is supplied;
\* the error it returns is dropped
ApplySockopt(d) ==
    /\ pc[d] = "sockopt"
    /\ IF sockopt[d]
       THEN \E ok \in BOOLEAN :
              /\ fdTable' = [fdTable EXCEPT ![fd[d]].sockopt = ok]
              /\ Logged(d, Ev("sockopt", fd[d], Cand(d),
                              IF ok THEN NoErr ELSE Err("sockopt", Cand(d))))
       ELSE UNCHANGED <<fdTable, log>>
    /\ pc' = [pc EXCEPT ![d] = "connect"]
    /\ UNCHANGED <<destination, ctxDone, dialVars, attemptVars, inputVars>>

\* dial, lines 88-101: the family of the socket address
SockaddrFamily(v6) == IF ~v6 THEN "AF_INET" ELSE "AF_INET6"

\* Connect returning its error without closing the descriptor
ConnectNoClose(d) ==
    /\ pc[d] = "connect"
    /\ \E ok \in BOOLEAN :
         IF ok
         THEN /\ fdTable' = [fdTable EXCEPT ![fd[d]].connected = TRUE,
                                            ![fd[d]].connAf = SockaddrFamily(ipv6[d])]
              /\ Logged(d, Ev("connect", fd[d], Cand(d), NoErr))
              /\ pc' = [pc EXCEPT ![d] = "wrap"]
              /\ UNCHANGED <<dialVars, attemptVars>>
         ELSE /\ Logged(d, Ev("connect", fd[d], Cand(d), Err("connect", Cand(d))))
              /\ DialReturns(d, NilConn, Err("connect", Cand(d)))
              /\ UNCHANGED fdTable
    /\ UNCHANGED <<destination, ctxDone, inputVars>>

\* dial, lines 103-107: unix.Connect; an error closes the descriptor and
\* returns
Connect(d) ==
    /\ pc[d] = "connect"
    /\ \E ok \in BOOLEAN :
         IF ok
         THEN /\ fdTable' = [fdTable EXCEPT ![fd[d]].connected = TRUE,
                                            ![fd[d]].connAf = SockaddrFamily(ipv6[d])]
              /\ Logged(d, Ev("connect", fd[d], Cand(d), NoErr))
              /\ pc' = [pc EXCEPT ![d] = "wrap"]
              /\ UNCHANGED <<dialVars, attemptVars>>
         ELSE /\ fdTable' = CloseFd(fdTable, fd[d])
              /\ Logged2(d, Ev("connect", fd[d], Cand(d), Err("connect", Cand(d))),
                            Ev("close", fd[d], Cand(d), NoErr))
              /\ DialReturns(d, NilConn, Err("connect", Cand(d)))
    /\ UNCHANGED <<destination, ctxDone, inputVars>>

\* os.NewFile: nil exactly for a negative descriptor
NewFile(f) == IF f < 0 THEN NoFd ELSE f

\* net.ResolveUDPAddr("udp", destination.NetAddr()): the text of an IP
\* address and a port always parses
ResolveUDPAddrOK(a) == a.family \in {"ipv4", "ipv6"}

\* net.FileConn / net.FilePacketConn duplicate the file's descriptor: the
\* copy is a new descriptor, owned by the connection
Dup(t, f, g) == [t EXCEPT ![g] = [t[f] EXCEPT !.owner = "conn"]]

\* the switch with the wrong network in its case: stream destinations get
\* the packet connection
IsPacketNetworkTCP(network) == network = "TCP"

\* dial, lines 115-116: the case of the switch that makes a packet
\* connection
IsPacketNetwork(network) == network = "UDP"

\* dial, lines 109-130: wrap the connected descriptor in an os.File and
\* that in a net.Conn
Wrap(d) ==
    /\ pc[d] = "wrap"
    /\ IF NewFile(fd[d]) = NoFd
       THEN /\ DialReturns(d, NilConn, Err("failed to connect to fd", Cand(d)))
            /\ UNCHANGED <<fdTable, log>>
       ELSE /\ file' = [file EXCEPT ![d] = NewFile(fd[d])]
            /\ pc' = [pc EXCEPT ![d] = "finish"]
            /\ UNCHANGED <<dialVars, fd, ipv6, timedOut>>
            /\ \E ok \in BOOLEAN :
                 /\ ok => HasFree(fdTable)
                 /\ LET g == LowestFree(fdTable)
                        held == [fdTable EXCEPT ![fd[d]].owner = "file"]
                    IN IF IsPacketNetwork(destination[d].Network)
                       THEN IF ok
                            THEN /\ fdTable' = Dup(held, fd[d], g)
                                 /\ Logged(d, Ev("FilePacketConn", g, Cand(d), NoErr))
                                 /\ IF ResolveUDPAddrOK(destination[d].Address)
                                    THEN /\ dconn' = [dconn EXCEPT ![d] =
                                               [kind |-> "packet", fd |-> g, peer |-> Cand(d)]]
                                         /\ UNCHANGED derr
                                    ELSE /\ derr' = [derr EXCEPT ![d] =
                                               Err("ResolveUDPAddr", Cand(d))]
                                         /\ UNCHANGED dconn
                            ELSE /\ fdTable' = held
                                 /\ Logged(d, Ev("FilePacketConn", NoFd, Cand(d),
                                              Err("FilePacketConn", Cand(d))))
                                 /\ UNCHANGED <<dconn, derr>>
                       ELSE IF ok
                            THEN /\ fdTable' = Dup(held, fd[d], g)
                                 /\ Logged(d, Ev("FileConn", g, Cand(d), NoErr))
                                 /\ dconn' = [dconn EXCEPT ![d] =
                                       [kind |-> "stream", fd |-> g, peer |-> Cand(d)]]
                                 /\ UNCHANGED derr
                            ELSE /\ fdTable' = held
                                 /\ Logged(d, Ev("FileConn", NoFd, Cand(d), Err("FileConn", Cand(d))))
                                 /\ dconn' = [dconn EXCEPT ![d] = NilConn]
                                 /\ derr' = [derr EXCEPT ![d] = Err("FileConn", Cand(d))]
    /\ UNCHANGED <<destination, ctxDone, inputVars>>

\* dial, lines 132-136: the result after the switch
Result(c, e) == IF e # NoErr THEN [conn |-> NilConn, err |-> e]
                ELSE [conn |-> c, err |-> NoErr]

\* dial, lines 113 and 121, 132-136: dial returns; the deferred
\* file.Close() closes the descriptor the file holds
Finish(d) ==
    /\ pc[d] = "finish"
    /\ fdTable' = CloseFd(fdTable, file[d])
    /\ Logged(d, Ev("close", file[d], Cand(d), NoErr))
    /\ DialReturns(d, Result(dconn[d], derr[d]).conn, Result(dconn[d], derr[d]).err)
    /\ UNCHANGED <<destination, ctxDone, inputVars>>

Next ==
    \E d \in Dialers :
        \/ Enter(d)
        \/ Resolve(d)
        \/ Loop(d)
        \/ Cancel(d)
        \/ GetFd(d)
        \/ Protect(d)
        \/ ApplySockopt(d)
        \/ Connect(d)
        \/ Wrap(d)
        \/ Finish(d)
        \/ Timeout(d)

Spec == Init /\ [][Next]_vars

\* Two invocations of Dial on one dialer, running concurrently: a stream
\* and a datagram destination, each a literal IP (the resolver is not
\* called, so Resolve is no step of it).
InitConc ==
    /\ InitDial({1, 2})
    /\ arg[1].Network = "TCP"
    /\ arg[2].Network = "UDP"
    /\ \A d \in {1, 2} : arg[d].Address \in {IPv4Addr, IPv6Addr}

NextConc ==
    \E d \in Dialers :
        \/ Enter(d)
        \/ Loop(d)
        \/ Cancel(d)
        \/ GetFd(d)
        \/ Protect(d)
        \/ ApplySockopt(d)
        \/ Connect(d)
        \/ Wrap(d)
        \/ Finish(d)
        \/ Timeout(d)

SpecConc == InitConc /\ [][NextConc]_vars

\* ---------------------------------------------------------------- claims

\* the calls of invocation d with operation o, in order
Calls(d, o) == SelectSeq(log[d], LAMBDA e : e.op = o)

\* the positions of the log of d that hold a call made for candidate c
CallsFor(d, c) == {k \in 1..Len(log[d]) : log[d][k].cand = c}

\* C1: in every attempt the calls come in the order socket, Protect on
\* that descriptor, ApplySockopt (exactly when socket options are
\* supplied), connect; no ApplySockopt or connect is made on a descriptor
\* that Protect was not called on or returned false for; and a false
\* Protect is followed by the close of the descriptor and ends the attempt
\* with an error.
C1_ProtectBeforeConnect ==
    /\ \A f \in Fds : fdTable[f].connected \/ fdTable[f].sockopt =>
                          fdTable[f].protected = "ok"
    /\ \A d \in Dialers : \A k \in 1..Len(log[d]) :
         LET e == log[d][k]
         IN /\ e.op \in {"sockopt", "connect"} =>
                 \E s \in 1..(k - 1), p \in 1..(k - 1) :
                    /\ s < p
                    /\ log[d][s] = Ev("socket", e.fd, e.cand, NoErr)
                    /\ log[d][p] = Ev("protect", e.fd, e.cand, NoErr)
                    /\ \A q \in CallsFor(d, e.cand) :
                           log[d][q].op = "sockopt" => p < q /\ q < k + 1
            /\ e.op = "sockopt" => sockopt[d] /\ \A q \in CallsFor(d, e.cand) :
                                        q # k => log[d][q].op # "sockopt"
            /\ e.op = "connect" /\ sockopt[d] =>
                 \E q \in 1..(k - 1) : /\ log[d][q].op = "sockopt"
                                       /\ log[d][q].fd = e.fd
                                       /\ log[d][q].cand = e.cand
            /\ e.op = "protect" /\ e.err # NoErr =>
                 /\ k < Len(log[d])
                 /\ log[d][k + 1] = Ev("close", e.fd, e.cand, NoErr)
                 /\ \A q \in CallsFor(d, e.cand) : q < k + 2
                 /\ Len(returned[d]) >= e.cand
                 /\ returned[d][e.cand] = [conn |-> NilConn, err |-> e.err]

\* a Dial with socket options whose first candidate's descriptor Protect
\* refused and whose second candidate's descriptor was connected
C1_Witness ==
    \E k, p \in 1..Len(log[1]) :
        /\ sockopt[1]
        /\ log[1][p].op = "protect" /\ log[1][p].err # NoErr /\ log[1][p].cand = 1
        /\ log[1][k].op = "connect" /\ log[1][k].cand = 2

\* the address family of the socket made for candidate ip
FamilyOf(ip) == SockaddrFamily(IsIPv6(AddressIP(IPAddress(ip))))

\* C2: for a domain destination, once the attempts on the first M-1
\* addresses have failed in connect and the attempt on the M-th has
\* produced a connection, there have been exactly M connects, on addresses
\* 1..M in that order, no call at all for a later address, no further
\* attempt, and Dial's result is the M-th attempt's connection and no error.
C2_FirstSuccessReturned ==
    \A d \in Dialers : arg[d].Address.family = "domain" =>
      \A M \in 1..Len(returned[d]) :
        (/\ \A k \in 1..(M - 1) : returned[d][k].err.kind = "connect"
         /\ returned[d][M].err = NoErr
         /\ returned[d][M].conn # NilConn)
        => /\ Len(returned[d]) = M
           /\ pc[d] \in {"loop", "done"}
           /\ Len(Calls(d, "connect")) = M
           /\ \A k \in 1..M : Calls(d, "connect")[k].cand = k
           /\ \A k \in 1..Len(log[d]) : log[d][k].cand <= M
           /\ conn[d] = returned[d][M].conn
           /\ conn[d].peer = M
           /\ fdTable[conn[d].fd].open
           /\ fdTable[conn[d].fd].connected
           /\ fdTable[conn[d].fd].af = FamilyOf(ips[d][M])
           /\ err[d] = NoErr

\* a Dial that returned the connection to the second address after the
\* connect to the first failed
C2_Witness ==
    /\ pc[1] = "done"
    /\ arg[1].Address.family = "domain"
    /\ Len(ips[1]) = MaxAddrs
    /\ Len(returned[1]) = 2
    /\ returned[1][1].err.kind = "connect"
    /\ conn[1] # NilConn /\ conn[1].peer = 2

\* C3: once Dial has returned, every open descriptor that the Dial created
\* is the one owned by the connection it returned.
C3_NoDescriptorLeak ==
    \A d \in Dialers : pc[d] = "done" =>
      \A f \in Fds : fdTable[f].open /\ fdTable[f].creator = d =>
          /\ conn[d] # NilConn
          /\ conn[d].fd = f
          /\ fdTable[f].owner = "conn"

\* a Dial that returned a connection after an attempt that failed in
\* connect: the first descriptor is closed, the connection's is open
C3_Witness ==
    /\ pc[1] = "done"
    /\ Len(returned[1]) = 2
    /\ returned[1][1].err.kind = "connect"
    /\ conn[1] # NilConn
    /\ fdTable[conn[1].fd].open
    /\ Cardinality({f \in Fds : fdTable[f].open}) = 1

\* the open descriptors invocation d created
OpenBy(d) == {f \in Fds : fdTable[f].open /\ fdTable[f].creator = d}

\* invocation d is inside dial
InAttempt(d) == pc[d] \in {"getFd", "protect", "sockopt", "connect", "wrap", "finish"}

\* C4 (as claimed): when every attempt of a Dial has failed to produce a
\* connection, Dial has attempted every candidate, once each and in
\* order, and returns no connection and the error of the attempt on the
\* last candidate.
C4_LastErrorWins ==
    \A d \in Dialers :
      (/\ pc[d] = "done"
       /\ Len(ips[d]) >= 1
       /\ \A k \in 1..Len(returned[d]) : returned[d][k].conn = NilConn)
      => /\ Len(returned[d]) = Len(ips[d])
         /\ conn[d] = NilConn
         /\ err[d] # NoErr
         /\ err[d] = returned[d][Len(ips[d])].err
         /\ err[d].at = Len(ips[d])

\* the attempt of d on candidate k failed in wrapping the connected
\* descriptor
WrapFailedAt(d, k) ==
    \E q \in CallsFor(d, k) : /\ log[d][q].op \in {"FileConn", "FilePacketConn"}
                              /\ log[d][q].err # NoErr

\* C5 (as claimed): after a wrapping failure no remaining candidate is
\* attempted.
C5_WrapFailureAbortsDial ==
    \A d \in Dialers : \A k \in 1..Len(ips[d]) :
      WrapFailedAt(d, k) => /\ Len(returned[d]) <= k
                            /\ InAttempt(d) => Cand(d) = k

\* C5 (amended): a wrapping failure ends its attempt without a connection,
\* and Dial goes on as after any attempt: when the attempt returned an
\* error and candidates remain, the next candidate is attempted; otherwise
\* Dial returns the attempt's result.
C5_WrapFailureEndsAttempt ==
    \A d \in Dialers : \A k \in 1..Len(returned[d]) :
      WrapFailedAt(d, k) =>
        LET r == returned[d][k]
        IN /\ r.conn = NilConn
           /\ r.err # NoErr => r.err = Err("FileConn", k)
           /\ pc[d] = "done" /\ r.err # NoErr /\ k < Len(ips[d])
                => Len(returned[d]) > k
           /\ pc[d] = "done" /\ (r.err = NoErr \/ k = Len(ips[d]))
                => /\ Len(returned[d]) = k
                   /\ conn[d] = NilConn
                   /\ err[d] = r.err

\* a Dial that went on to the second candidate after the wrapping of the
\* first candidate's descriptor had failed
C5_Witness ==
    /\ pc[1] = "done"
    /\ WrapFailedAt(1, 1)
    /\ returned[1][1].err = Err("FileConn", 1)
    /\ Len(returned[1]) = 2

\* C6: a Dial to a literal IP never calls the resolver and makes exactly
\* one attempt, on that address.
C6_LiteralIPOneAttempt ==
    \A d \in Dialers :
      (/\ pc[d] \notin {"idle", "Dial"}
       /\ arg[d].Network # "Unknown"
       /\ arg[d].Address.family \in {"ipv4", "ipv6"})
      => /\ pc[d] # "resolver"
         /\ Len(Calls(d, "resolve")) = 0
         /\ ips[d] = <<arg[d].Address.ip>>
         /\ Len(returned[d]) <= 1
         /\ Len(Calls(d, "socket")) <= 1
         /\ \A k \in 1..Len(log[d]) : log[d][k].cand = 1
         /\ InAttempt(d) => Cand(d) = 1 /\ destination[d].Address = arg[d].Address
         /\ pc[d] = "done" => Len(returned[d]) = 1

\* a Dial to a literal IPv6 address that returned after its one attempt
C6_Witness ==
    /\ pc[1] = "done"
    /\ arg[1].Address.family = "ipv6"
    /\ Len(returned[1]) = 1
    /\ Len(Calls(1, "connect")) = 1

\* C7: when the resolver returns no error and no address, Dial returns the
\* empty-response error and no connection, having made no call but the
\* resolver's: no socket, no Protect, no connect.
C7_EmptyResponse ==
    \A d \in Dialers : \A k \in 1..Len(log[d]) :
      (log[d][k].op = "resolve" /\ log[d][k].err = NoErr /\ ips[d] = <<>>)
      => /\ pc[d] = "done"
         /\ err[d] = Err("ErrEmptyResponse", 0)
         /\ err[d] # Err("resolver", 0)
         /\ conn[d] = NilConn
         /\ Len(log[d]) = 1
         /\ returned[d] = <<>>
         /\ OpenBy(d) = {}

\* a Dial whose resolver answered with an empty list
C7_Witness ==
    /\ Len(log[1]) = 1
    /\ log[1][1] = Ev("resolve", NoFd, 0, NoErr)
    /\ ips[1] = <<>>
    /\ pc[1] = "done"

\* C8: when the resolver returns an error, Dial returns that error and no
\* connection, having made no call but the resolver's: no socket, no
\* Protect, no connect.
C8_ResolverError ==
    \A d \in Dialers : \A k \in 1..Len(log[d]) :
      (log[d][k].op = "resolve" /\ log[d][k].err # NoErr)
      => /\ pc[d] = "done"
         /\ err[d] = log[d][k].err
         /\ conn[d] = NilConn
         /\ Len(log[d]) = 1
         /\ returned[d] = <<>>
         /\ OpenBy(d) = {}

\* a Dial whose context was cancelled while the resolver ran
C8_Witness ==
    /\ Len(log[1]) = 1
    /\ log[1][1] = Ev("resolve", NoFd, 0, Err("canceled", 0))
    /\ ctxDone[1]
    /\ pc[1] = "done"

\* Protect was called for candidate k of d and returned false
ProtectFalseAt(d, k) ==
    \E q \in CallsFor(d, k) : log[d][q].op = "protect" /\ log[d][q].err # NoErr

\* C9: when Dial has returned and Protect returned false in every attempt
\* it made, every candidate was attempted, Dial returns no connection and
\* an error, no connect was made and every descriptor the Dial created is
\* closed.
C9_ProtectAlwaysFalse ==
    \A d \in Dialers :
      (/\ pc[d] = "done"
       /\ Len(ips[d]) >= 1
       /\ \A k \in 1..Len(returned[d]) : ProtectFalseAt(d, k))
      => /\ Len(returned[d]) = Len(ips[d])
         /\ conn[d] = NilConn
         /\ err[d] = Err("protect failed", Len(ips[d]))
         /\ Len(Calls(d, "connect")) = 0
         /\ Len(Calls(d, "close")) = Len(Calls(d, "socket"))
         /\ Len(Calls(d, "socket")) = Len(ips[d])
         /\ OpenBy(d) = {}

\* a Dial over two candidates whose descriptors Protect both refused
C9_Witness ==
    /\ pc[1] = "done"
    /\ Len(ips[1]) = 2
    /\ ProtectFalseAt(1, 1)
    /\ ProtectFalseAt(1, 2)

\* C10: a Dial to a destination of unknown network or nil address panics
\* at once: no resolver call, no socket, no Protect, no connect.
C10_InvalidDestination ==
    \A d \in Dialers :
      (/\ pc[d] \notin {"idle", "Dial"}
       /\ (arg[d].Network = "Unknown" \/ arg[d].Address.family = "nil"))
      => /\ pc[d] = "panic"
         /\ log[d] = <<>>
         /\ ips[d] = <<>>
         /\ returned[d] = <<>>
         /\ conn[d] = NilConn
         /\ OpenBy(d) = {}

\* a Dial to a domain name with unknown network, after its panic
C10_Witness ==
    /\ pc[1] = "panic"
    /\ arg[1].Network = "Unknown"
    /\ arg[1].Address.family = "domain"

\* everything invocation d holds: Dial's and dial's parameters, locals and
\* results, and the calls it has made
Local(d) == <<pc[d], arg[d], destination[d], sockopt[d], ctxDone[d], ips[d], i[d],
              conn[d], err[d], returned[d], fd[d], ipv6[d], file[d], dconn[d],
              derr[d], timedOut[d], log[d]>>

\* the descriptors invocation d holds in a local or a result
Held(d) == {fd[d], file[d], dconn[d].fd, conn[d].fd} \ {NoFd}

\* every descriptor an invocation holds is open and was created by it
HeldAreOwn == \A d \in Dialers : \A f \in Held(d) :
                  fdTable[f].open /\ fdTable[f].creator = d

\* C11: with two Dial invocations interleaved in any way, every step is a
\* step of one invocation d that changes nothing another invocation
\* holds, calls Protect, ApplySockopt, connect, close or a wrapper only on
\* descriptors that d created, and changes no entry of the descriptor
\* table but those of descriptors d created; and every descriptor an
\* invocation holds is one it created.
C11_SelfContained ==
    [][/\ HeldAreOwn
       /\ HeldAreOwn'
       /\ \E d \in Dialers :
            /\ \A e \in Dialers \ {d} : Local(e)' = Local(e)
            /\ \A f \in Fds : fdTable'[f] # fdTable[f] =>
                 /\ fdTable[f].open => fdTable[f].creator = d
                 /\ fdTable'[f].open => fdTable'[f].creator = d
            /\ \A k \in (Len(log[d]) + 1)..Len(log'[d]) :
                 LET e == log'[d][k]
                 IN e.fd # NoFd =>
                      \/ fdTable[e.fd].open /\ fdTable[e.fd].creator = d
                      \/ ~fdTable[e.fd].open /\ fdTable'[e.fd].creator = d]_vars

\* the second invocation is about to connect the descriptor whose number
\* the first invocation's descriptor had before the first closed it, while
\* the first holds a connection on another descriptor
C11_Witness ==
    /\ pc[2] = "connect"
    /\ \E k \in 1..Len(log[1]) : log[1][k].op = "close" /\ log[1][k].fd = fd[2]
    /\ conn[1] # NilConn
    /\ fdTable[conn[1].fd].open

\* C12: a connection that dial returns is a packet connection exactly for
\* a datagram destination and a stream connection for any other; it owns
\* an open, connected descriptor made for the candidate that was
\* connected, and that candidate is the packet connection's peer. The
\* connection Dial returns is the one its last attempt returned.
C12_ConnKindByNetwork ==
    \A d \in Dialers :
      /\ \A k \in 1..Len(returned[d]) :
           LET c == returned[d][k].conn
           IN c # NilConn =>
                /\ c.kind = IF arg[d].Network = "UDP" THEN "packet" ELSE "stream"
                /\ c.peer = k
                /\ fdTable[c.fd].open
                /\ fdTable[c.fd].owner = "conn"
                /\ fdTable[c.fd].connected
                /\ fdTable[c.fd].cand = k
                /\ fdTable[c.fd].type =
                     (IF arg[d].Network = "UDP" THEN "SOCK_DGRAM" ELSE "SOCK_STREAM")
                /\ \E q \in CallsFor(d, k) : /\ log[d][q].op = "connect"
                                             /\ log[d][q].err = NoErr
      /\ pc[d] = "done" /\ conn[d] # NilConn =>
           conn[d] = returned[d][Len(returned[d])].conn

\* a Dial to a literal IPv6 datagram destination that returned a packet
\* connection
C12_Witness ==
    /\ pc[1] = "done"
    /\ arg[1] = [Network |-> "UDP", Address |-> IPv6Addr]
    /\ conn[1].kind = "packet"
    /\ conn[1].peer = 1
    /\ fdTable[conn[1].fd].af = "AF_INET6"

\* C13 (as claimed): Dial returns either a connection and no error or no
\* connection and an error.
C13_ResultWellFormed ==
    \A d \in Dialers : pc[d] = "done" =>
        \/ conn[d] # NilConn /\ err[d] = NoErr
        \/ conn[d] = NilConn /\ err[d] # NoErr

\* C14 (as claimed): a failed Protect, ApplySockopt or connect is followed,
\* in its attempt, by nothing but the close of the descriptor (no connect
\* after a failed ApplySockopt), and the attempt returns an error.
C14_StepFailureAbortsAttempt ==
    \A d \in Dialers : \A k \in 1..Len(log[d]) :
      LET e == log[d][k]
      IN (e.op \in {"protect", "sockopt", "connect"} /\ e.err # NoErr) =>
           /\ \A q \in CallsFor(d, e.cand) :
                q > k => log[d][q] = Ev("close", e.fd, e.cand, NoErr)
           /\ Len(returned[d]) >= e.cand =>
                /\ returned[d][e.cand].conn = NilConn
                /\ returned[d][e.cand].err # NoErr

\* the errors of socket creation and of protection
CreationOrProtection == {"socket", "unknow network", "protect failed"}

\* C15: an attempt that failed in socket creation or in protection on a
\* candidate that is not the last is followed by an attempt on the next
\* candidate, which starts with its own socket call; Dial returns such an
\* error only from the attempt on the last candidate.
C15_CreationFailureGoesOn ==
    \A d \in Dialers :
      /\ \A k \in 1..Len(returned[d]) :
           returned[d][k].err.kind \in CreationOrProtection =>
             /\ returned[d][k].err.at = k
             /\ returned[d][k].conn = NilConn
             /\ pc[d] = "done" /\ k < Len(ips[d]) =>
                  /\ Len(returned[d]) > k
                  /\ err[d] # returned[d][k].err
             /\ \A q \in CallsFor(d, k + 1) :
                  \E s \in CallsFor(d, k + 1) :
                     /\ s <= q
                     /\ log[d][s].op = "socket"
                     /\ \A p \in CallsFor(d, k) : p < s
      /\ pc[d] = "done" /\ err[d].kind \in CreationOrProtection =>
           /\ err[d].at = Len(ips[d])
           /\ Len(returned[d]) = Len(ips[d])

\* a Dial that returned the connection to the second candidate after
\* Protect had refused the first candidate's descriptor
C15_Witness ==
    /\ pc[1] = "done"
    /\ Len(returned[1]) = 2
    /\ returned[1][1].err = Err("protect failed", 1)
    /\ conn[1] # NilConn
    /\ conn[1].peer = 2

\* C16 (as claimed): when the deadline of the attempt passes while connect
\* has not returned, the attempt ends there: it returns an error and its
\* descriptor is closed.
C16_TimeoutAbortsConnect ==
    [][\A d \in Dialers :
         (timedOut[d] /\ pc[d] = "connect" /\ pc'[d] # "connect") =>
            /\ pc'[d] = "loop"
            /\ ~fdTable'[fd[d]].open
            /\ returned'[d][Len(returned'[d])].err # NoErr]_vars

\* C17: once the candidates are known (the resolver has returned its
\* addresses), a cancelled caller's context changes nothing: no attempt
\* and no result carries the context's error, the candidates are attempted
\* one after the other in resolver order, Dial returns only after the last
\* candidate or after an attempt without error, and its result is that of
\* its last attempt.
C17_CancelAfterResolution ==
    \A d \in Dialers : (ctxDone[d] /\ Len(ips[d]) >= 1) =>
      /\ err[d].kind # "canceled"
      /\ derr[d].kind # "canceled"
      /\ \A k \in 1..Len(returned[d]) :
           /\ returned[d][k].err.kind # "canceled"
           /\ returned[d][k].err # NoErr => returned[d][k].err.at = k
           /\ k < Len(returned[d]) => returned[d][k].err # NoErr
      /\ \A p, q \in 1..Len(log[d]) : p < q => log[d][p].cand <= log[d][q].cand
      /\ \A k \in 1..Len(log[d]) : log[d][k].err.kind # "canceled"
      /\ InAttempt(d) => Cand(d) = Len(returned[d]) + 1
      /\ pc[d] = "done" =>
           /\ Len(returned[d]) >= 1
           /\ \/ Len(returned[d]) = Len(ips[d])
              \/ returned[d][Len(returned[d])].err = NoErr
           /\ conn[d] = returned[d][Len(returned[d])].conn
           /\ err[d] = returned[d][Len(returned[d])].err

\* a Dial whose context is cancelled and whose resolver returned two
\* addresses: the first attempt failed, the second returned a connection
C17_Witness ==
    /\ ctxDone[1]
    /\ pc[1] = "done"
    /\ Len(log[1]) >= 1
    /\ log[1][1] = Ev("resolve", NoFd, 0, NoErr)
    /\ Len(ips[1]) = 2
    /\ Len(returned[1]) = 2
    /\ conn[1] # NilConn

\* the IP dial reads for candidate c of d: destination.Address.IP() after
\* line 62
DestIP(d, c) == AddressIP(IPAddress(ips[d][c]))

\* C18: every socket made for an attempt has family AF_INET exactly when
\* the IP of the attempt's destination is 4 bytes long and AF_INET6
\* otherwise; its type and protocol are stream/TCP for TCP, datagram/UDP
\* for UDP and stream/0 for UNIX; the address it is connected to has the
\* socket's family; for any other network no socket is made and the
\* attempt returns the unknown-network error.
C18_SocketKind ==
    \A d \in Dialers :
      /\ \A f \in OpenBy(d) :
           LET t == fdTable[f]
           IN /\ t.af = IF DestIP(d, t.cand).len = IPv4len THEN "AF_INET"
                        ELSE "AF_INET6"
              /\ arg[d].Network \in {"TCP", "UDP", "UNIX"}
              /\ arg[d].Network = "TCP" =>
                   t.type = "SOCK_STREAM" /\ t.proto = "IPPROTO_TCP"
              /\ arg[d].Network = "UDP" =>
                   t.type = "SOCK_DGRAM" /\ t.proto = "IPPROTO_UDP"
              /\ arg[d].Network = "UNIX" =>
                   t.type = "SOCK_STREAM" /\ t.proto = "0"
              /\ t.connected => t.connAf = t.af
      /\ arg[d].Network \notin {"TCP", "UDP", "UNIX"} =>
           /\ Len(Calls(d, "socket")) = 0
           /\ \A k \in 1..Len(returned[d]) :
                returned[d][k] = [conn |-> NilConn, err |-> Err("unknow network", k)]

\* a connected datagram socket of family AF_INET made for a candidate the
\* resolver returned as 16 bytes holding an IPv4-mapped address, after an
\* attempt on a 16-byte IPv6 candidate
C18_Witness ==
    /\ arg[1].Network = "UDP"
    /\ ips[1] = <<IP6, IP4in6>>
    /\ pc[1] = "wrap"
    /\ fdTable[fd[1]].cand = 2
    /\ fdTable[fd[1]].connAf = "AF_INET"
====
